---- MODULE Spec2Model ----
(***************************************************************************)
(* Model of app.py, the SQL Practice Bot (Streamlit + Anthropic client).   *)
(*                                                                         *)
(* Text is a sequence of atoms.  A maximal run of lower-case ASCII letters *)
(* and underscores is one atom (a word such as "sure", a key such as       *)
(* "question_text"); every other character is an atom of its own: an       *)
(* upper-case letter, a digit, a punctuation mark, a blank.  A lower-case  *)
(* letter that the code reads on its own is an atom of its own as well:    *)
(* the letter after a backslash, the hexadecimal digits after \u, the e    *)
(* after the digits of a number; so are the JSON words null, true, false   *)
(* where a value starts.  The tab, line feed, form feed and carriage       *)
(* return are "\t", "\n", "\f", "\r".  A character that cannot be written  *)
(* in a TLA+ string is the atom "U+XXXX", its code point in upper-case     *)
(* hexadecimal, at least four digits: line tabulation is "U+000B", the     *)
(* no-break space "U+00A0", the grave accent "U+0060".                     *)
(*                                                                         *)
(* str.strip, str.find, str.rfind, slicing, str.lower and json.loads are   *)
(* computed on these sequences as Python computes them on characters.      *)
(* A text that the code builds (a decoded JSON string, a lowered text) is   *)
(* cut into atoms by the same rule.                                        *)
(*                                                                         *)
(* Python values are uniform records [t, s, n, m, e]:                      *)
(*   t = "none" | "str" | "int" | "float" | "bool" | "obj" | "arr"         *)
(*   s = the atoms of a str; <<"nan">>, <<"inf">>, <<"-inf">> for the      *)
(*       floats that are not numbers                                       *)
(*   n = the number of an int, 0/1 of a bool, the digits of a float        *)
(*   e = the decimal exponent of a float: its value is n * 10^e, with n    *)
(*       not a multiple of 10                                              *)
(*   m = the members of a dict or list, a sequence of [k, v]               *)
(***************************************************************************)
EXTENDS Integers, Sequences, FiniteSets, TLC

VARIABLES
    apiKey,            \* os.getenv("ANTHROPIC_API_KEY") is set
    current_question,  \* st.session_state.current_question
    grading_result,    \* st.session_state.grading_result
    user_answer,       \* st.session_state.user_answer
    track,             \* st.session_state.track
    difficulty,        \* st.session_state.difficulty
    dialect,           \* st.session_state.dialect
    pc,                \* where the script is: "idle", waiting in a model call
                       \* ("generating", "grading"), or ended by st.rerun()
                       \* with the run it asked for still to come ("rerun")
    view,              \* what the last finished script run put on the page
    act,               \* the user action that started the last script run
    reply,             \* the model's reply to the last call
    request,           \* the model call issued by the last script run, if any
    out,               \* what the last generate/grade call returned and emitted
    gradedQuestion,    \* the question the held grading was made against
    prior,             \* the last store of a question (lines 341-342) replaced
                       \* another question and a grading of it
    genDialect         \* dialect passed to the call that made the held question

vars == <<apiKey, current_question, grading_result, user_answer, track,
          difficulty, dialect, pc, view, act, reply, request, out,
          gradedQuestion, prior, genDialect>>

session == <<current_question, grading_result, user_answer, track,
             difficulty, dialect>>

-----------------------------------------------------------------------------
(* Bounds *)

MaxPad == 1        \* longest generated commentary around a reply body, in atoms

-----------------------------------------------------------------------------
(* Program constants *)

TRACKS ==
    << <<"A", "nalytics", " ", "/", " ", "B", "I", "-", "focused", " ", "S", "Q", "L">>,
       <<"D", "ata", " ", "E", "ngineer", "-", "focused", " ", "S", "Q", "L">> >>

DIFFICULTY_LEVELS == << <<"B", "eginner">>, <<"I", "ntermediate">>, <<"A", "dvanced">> >>

SQL_DIALECTS ==
    << <<"P", "ostgre", "S", "Q", "L">>, <<"M", "y", "S", "Q", "L">>,
       <<"S", "nowflake">>, <<"B", "ig", "Q", "uery">> >>

Range(f) == {f[i] : i \in DOMAIN f}

-----------------------------------------------------------------------------
(* Python values *)

Val(t, s, n, m) == [t |-> t, s |-> s, n |-> n, m |-> m, e |-> 0]

NoneV == Val("none", <<>>, 0, <<>>)

StrV(s) == Val("str", s, 0, <<>>)

IntV(n) == Val("int", <<>>, n, <<>>)

\* the float n * 10^e
FloatV(n, e) == [Val("float", <<>>, n, <<>>) EXCEPT !.e = e]

\* float("nan")
NaNV == Val("float", <<"nan">>, 0, <<>>)

\* float("inf"), float("-inf")
InfV(neg) == Val("float", IF neg THEN <<"-inf">> ELSE <<"inf">>, 0, <<>>)

BoolV(b) == Val("bool", <<>>, IF b THEN 1 ELSE 0, <<>>)

DictV(m) == Val("obj", <<>>, 0, m)

ListV(m) == Val("arr", <<>>, 0, m)

Member(k, v) == [k |-> k, v |-> v]

\* the "if question_data:" / "if grading_result:" test dropped
TruthyAlways(v) == TRUE

\* bool(v)
Truthy(v) ==
    CASE v.t = "none" -> FALSE
      [] v.t = "str" -> Len(v.s) > 0
      [] v.t = "int" -> v.n # 0
      [] v.t = "float" -> v.n # 0 \/ Len(v.s) > 0
      [] v.t = "bool" -> v.n = 1
      [] OTHER -> Len(v.m) > 0

\* d[k] = v on a dict's members: a repeated key keeps its place, last value wins
DictSet(m, k, v) ==
    IF \E i \in 1..Len(m) : m[i].k = k
    THEN [i \in 1..Len(m) |-> IF m[i].k = k THEN Member(k, v) ELSE m[i]]
    ELSE Append(m, Member(k, v))

HasKey(v, k) == v.t = "obj" /\ \E i \in 1..Len(v.m) : v.m[i].k = k

\* d[k] for a key that is present
Get(v, k) == v.m[CHOOSE i \in 1..Len(v.m) : v.m[i].k = k].v

-----------------------------------------------------------------------------
(* Text *)

QUOTE == "\""

BACKSLASH == "\\"

\* the characters str.strip() removes (str.isspace)
StripWsAtoms ==
    {"\t", "\n", "U+000B", "\f", "\r", "U+001C", "U+001D", "U+001E", "U+001F",
     " ", "U+0085", "U+00A0", "U+1680", "U+2000", "U+2001", "U+2002", "U+2003",
     "U+2004", "U+2005", "U+2006", "U+2007", "U+2008", "U+2009", "U+200A",
     "U+2028", "U+2029", "U+202F", "U+205F", "U+3000"}

\* the characters json skips between tokens
JsonWsAtoms == {" ", "\t", "\n", "\r"}

\* U+0000 to U+001F, which json rejects inside a string
ControlAtoms ==
    {"U+0000", "U+0001", "U+0002", "U+0003", "U+0004", "U+0005", "U+0006",
     "U+0007", "U+0008", "\t", "\n", "U+000B", "\f", "\r", "U+000E", "U+000F",
     "U+0010", "U+0011", "U+0012", "U+0013", "U+0014", "U+0015", "U+0016",
     "U+0017", "U+0018", "U+0019", "U+001A", "U+001B", "U+001C", "U+001D",
     "U+001E", "U+001F"}

DigitSeq == <<"0", "1", "2", "3", "4", "5", "6", "7", "8", "9">>

Digits == Range(DigitSeq)

DigitVal(d) == (CHOOSE i \in 1..10 : DigitSeq[i] = d) - 1

HexSeq == DigitSeq \o <<"A", "B", "C", "D", "E", "F">>

HexLowerSeq == DigitSeq \o <<"a", "b", "c", "d", "e", "f">>

HexDigits == Range(HexSeq) \cup Range(HexLowerSeq)

HexVal(d) == (CHOOSE i \in 1..16 : HexSeq[i] = d \/ HexLowerSeq[i] = d) - 1

\* the four hexadecimal digits of c < 65536
Hex4(c) ==
    HexSeq[(c \div 4096) + 1] \o HexSeq[((c \div 256) % 16) + 1]
        \o HexSeq[((c \div 16) % 16) + 1] \o HexSeq[(c % 16) + 1]

\* the printable ASCII characters, U+0020 to U+007E (the grave accent cannot
\* be written in a TLA+ string)
AsciiSeq ==
    <<" ", "!", "\"", "#", "$", "%", "&", "'", "(", ")", "*", "+",
      ",", "-", ".", "/", "0", "1", "2", "3", "4", "5", "6", "7",
      "8", "9", ":", ";", "<", "=", ">", "?", "@", "A", "B", "C",
      "D", "E", "F", "G", "H", "I", "J", "K", "L", "M", "N", "O",
      "P", "Q", "R", "S", "T", "U", "V", "W", "X", "Y", "Z", "[",
      "\\", "]", "^", "_", "U+0060", "a", "b", "c", "d", "e", "f", "g",
      "h", "i", "j", "k", "l", "m", "n", "o", "p", "q", "r", "s",
      "t", "u", "v", "w", "x", "y", "z", "{", "|", "}", "~">>

\* chr(c): the atom of the character with code point c
Chr(c) ==
    CASE c = 9 -> "\t"
      [] c = 10 -> "\n"
      [] c = 12 -> "\f"
      [] c = 13 -> "\r"
      [] c \in 32..126 -> AsciiSeq[c - 31]
      [] c \in 65536..1048575 -> "U+" \o HexSeq[(c \div 65536) + 1] \o Hex4(c % 65536)
      [] c > 1048575 -> "U+10" \o Hex4(c % 65536)
      [] OTHER -> "U+" \o Hex4(c)

LowerSeq ==
    <<"a", "b", "c", "d", "e", "f", "g", "h", "i", "j", "k", "l", "m",
      "n", "o", "p", "q", "r", "s", "t", "u", "v", "w", "x", "y", "z">>

\* the first index from p upwards whose atom is in S, 0 when there is none
ScanUp(txt, p, S) ==
    IF \E j \in p..Len(txt) : txt[j] \in S
    THEN CHOOSE j \in p..Len(txt) :
             txt[j] \in S /\ \A k \in p..(j - 1) : txt[k] \notin S
    ELSE 0

\* the last index from p downwards whose atom is in S, 0 when there is none
ScanDown(txt, p, S) ==
    IF \E j \in 1..p : txt[j] \in S
    THEN CHOOSE j \in 1..p :
             txt[j] \in S /\ \A k \in (j + 1)..p : txt[k] \notin S
    ELSE 0

\* the first index from p upwards whose atom is not in S, Len(txt) + 1 when none
SkipUp(txt, p, S) ==
    IF p > Len(txt) THEN p
    ELSE CHOOSE j \in p..(Len(txt) + 1) :
             /\ j > Len(txt) \/ txt[j] \notin S
             /\ \A k \in p..(j - 1) : txt[k] \in S

\* the last index from p downwards whose atom is not in S, 0 when none
SkipDown(txt, p, S) ==
    IF p < 1 THEN p
    ELSE CHOOSE j \in 0..p :
             /\ j < 1 \/ txt[j] \notin S
             /\ \A k \in (j + 1)..p : txt[k] \in S

\* str.strip()
Strip(txt) ==
    SubSeq(txt, SkipUp(txt, 1, StripWsAtoms), SkipDown(txt, Len(txt), StripWsAtoms))

\* str.find(c), 1-based, 0 when absent (Python: 0-based, -1 when absent)
Find(txt, c) == ScanUp(txt, 1, {c})

\* str.rfind(c), 1-based, 0 when absent
RFind(txt, c) == ScanDown(txt, Len(txt), {c})

\* the atom is a run of lower-case letters and underscores
IsWord(a) == SubSeq(a, 1, 1) \in Range(LowerSeq) \cup {"_"}

\* the text of txt after acc, cut into atoms again: runs that came to stand
\* side by side are one atom
RECURSIVE Recut(_, _)
Recut(txt, acc) ==
    IF txt = <<>> THEN acc
    ELSE IF acc # <<>> /\ IsWord(acc[Len(acc)]) /\ IsWord(Head(txt))
    THEN Recut(Tail(txt), [acc EXCEPT ![Len(acc)] = @ \o Head(txt)])
    ELSE Recut(Tail(txt), Append(acc, Head(txt)))

\* the characters of an atom: the letters of a run, one by one
CharsOf(a) == IF IsWord(a) THEN [i \in 1..Len(a) |-> SubSeq(a, i, i)] ELSE <<a>>

\* the characters of a text
RECURSIVE Chars(_)
Chars(txt) == IF txt = <<>> THEN <<>> ELSE CharsOf(Head(txt)) \o Chars(Tail(txt))

\* sub occurs in txt, both given as characters
Occurs(sub, txt) ==
    \E i \in 0..(Len(txt) - Len(sub)) :
        \A j \in 1..Len(sub) : txt[i + j] = sub[j]

\* sub in txt, for str operands
IsSubSeq(sub, txt) == Occurs(Chars(sub), Chars(txt))

\* txt[p:].startswith(pat), p 1-based
MatchAt(txt, p, pat) ==
    /\ p + Len(pat) - 1 <= Len(txt)
    /\ SubSeq(txt, p, p + Len(pat) - 1) = pat

\* the number written by the hexadecimal digits of a from index i on
RECURSIVE HexNum(_, _, _)
HexNum(a, i, acc) ==
    IF i > Len(a) THEN acc ELSE HexNum(a, i + 1, 16 * acc + HexVal(SubSeq(a, i, i)))

\* ord(a): the code point of the character that the atom a stands for
Ord(a) ==
    CASE a = "\t" -> 9
      [] a = "\n" -> 10
      [] a = "\f" -> 12
      [] a = "\r" -> 13
      [] a \in Range(AsciiSeq) -> (CHOOSE i \in 1..Len(AsciiSeq) : AsciiSeq[i] = a) + 31
      [] OTHER -> HexNum(a, 3, 0)

\* str.lower() of one character, as <<lo, hi, step, d>>: the code points
\* lo, lo + step, ..., hi lower to themselves plus d (Unicode 14.0, the
\* data of CPython 3.11); U+0130 and U+03A3 are treated apart
LowerRanges ==
    << <<65,90,1,32>>, <<192,214,1,32>>, <<216,222,1,32>>, <<256,302,2,1>>,
       <<306,310,2,1>>, <<313,327,2,1>>, <<330,374,2,1>>, <<376,376,1,-121>>,
       <<377,381,2,1>>, <<385,385,1,210>>, <<386,388,2,1>>, <<390,390,1,206>>,
       <<391,391,1,1>>, <<393,394,1,205>>, <<395,395,1,1>>, <<398,398,1,79>>,
       <<399,399,1,202>>, <<400,400,1,203>>, <<401,401,1,1>>, <<403,403,1,205>>,
       <<404,404,1,207>>, <<406,406,1,211>>, <<407,407,1,209>>, <<408,408,1,1>>,
       <<412,412,1,211>>, <<413,413,1,213>>, <<415,415,1,214>>, <<416,420,2,1>>,
       <<422,422,1,218>>, <<423,423,1,1>>, <<425,425,1,218>>, <<428,428,1,1>>,
       <<430,430,1,218>>, <<431,431,1,1>>, <<433,434,1,217>>, <<435,437,2,1>>,
       <<439,439,1,219>>, <<440,440,1,1>>, <<444,444,1,1>>, <<452,452,1,2>>,
       <<453,453,1,1>>, <<455,455,1,2>>, <<456,456,1,1>>, <<458,458,1,2>>,
       <<459,475,2,1>>, <<478,494,2,1>>, <<497,497,1,2>>, <<498,500,2,1>>,
       <<502,502,1,-97>>, <<503,503,1,-56>>, <<504,542,2,1>>,
       <<544,544,1,-130>>, <<546,562,2,1>>, <<570,570,1,10795>>,
       <<571,571,1,1>>, <<573,573,1,-163>>, <<574,574,1,10792>>,
       <<577,577,1,1>>, <<579,579,1,-195>>, <<580,580,1,69>>, <<581,581,1,71>>,
       <<582,590,2,1>>, <<880,882,2,1>>, <<886,886,1,1>>, <<895,895,1,116>>,
       <<902,902,1,38>>, <<904,906,1,37>>, <<908,908,1,64>>, <<910,911,1,63>>,
       <<913,929,1,32>>, <<932,939,1,32>>, <<975,975,1,8>>, <<984,1006,2,1>>,
       <<1012,1012,1,-60>>, <<1015,1015,1,1>>, <<1017,1017,1,-7>>,
       <<1018,1018,1,1>>, <<1021,1023,1,-130>>, <<1024,1039,1,80>>,
       <<1040,1071,1,32>>, <<1120,1152,2,1>>, <<1162,1214,2,1>>,
       <<1216,1216,1,15>>, <<1217,1229,2,1>>, <<1232,1326,2,1>>,
       <<1329,1366,1,48>>, <<4256,4293,1,7264>>, <<4295,4295,1,7264>>,
       <<4301,4301,1,7264>>, <<5024,5103,1,38864>>, <<5104,5109,1,8>>,
       <<7312,7354,1,-3008>>, <<7357,7359,1,-3008>>, <<7680,7828,2,1>>,
       <<7838,7838,1,-7615>>, <<7840,7934,2,1>>, <<7944,7951,1,-8>>,
       <<7960,7965,1,-8>>, <<7976,7983,1,-8>>, <<7992,7999,1,-8>>,
       <<8008,8013,1,-8>>, <<8025,8031,2,-8>>, <<8040,8047,1,-8>>,
       <<8072,8079,1,-8>>, <<8088,8095,1,-8>>, <<8104,8111,1,-8>>,
       <<8120,8121,1,-8>>, <<8122,8123,1,-74>>, <<8124,8124,1,-9>>,
       <<8136,8139,1,-86>>, <<8140,8140,1,-9>>, <<8152,8153,1,-8>>,
       <<8154,8155,1,-100>>, <<8168,8169,1,-8>>, <<8170,8171,1,-112>>,
       <<8172,8172,1,-7>>, <<8184,8185,1,-128>>, <<8186,8187,1,-126>>,
       <<8188,8188,1,-9>>, <<8486,8486,1,-7517>>, <<8490,8490,1,-8383>>,
       <<8491,8491,1,-8262>>, <<8498,8498,1,28>>, <<8544,8559,1,16>>,
       <<8579,8579,1,1>>, <<9398,9423,1,26>>, <<11264,11311,1,48>>,
       <<11360,11360,1,1>>, <<11362,11362,1,-10743>>, <<11363,11363,1,-3814>>,
       <<11364,11364,1,-10727>>, <<11367,11371,2,1>>, <<11373,11373,1,-10780>>,
       <<11374,11374,1,-10749>>, <<11375,11375,1,-10783>>,
       <<11376,11376,1,-10782>>, <<11378,11378,1,1>>, <<11381,11381,1,1>>,
       <<11390,11391,1,-10815>>, <<11392,11490,2,1>>, <<11499,11501,2,1>>,
       <<11506,11506,1,1>>, <<42560,42604,2,1>>, <<42624,42650,2,1>>,
       <<42786,42798,2,1>>, <<42802,42862,2,1>>, <<42873,42875,2,1>>,
       <<42877,42877,1,-35332>>, <<42878,42886,2,1>>, <<42891,42891,1,1>>,
       <<42893,42893,1,-42280>>, <<42896,42898,2,1>>, <<42902,42920,2,1>>,
       <<42922,42922,1,-42308>>, <<42923,42923,1,-42319>>,
       <<42924,42924,1,-42315>>, <<42925,42925,1,-42305>>,
       <<42926,42926,1,-42308>>, <<42928,42928,1,-42258>>,
       <<42929,42929,1,-42282>>, <<42930,42930,1,-42261>>,
       <<42931,42931,1,928>>, <<42932,42946,2,1>>, <<42948,42948,1,-48>>,
       <<42949,42949,1,-42307>>, <<42950,42950,1,-35384>>, <<42951,42953,2,1>>,
       <<42960,42960,1,1>>, <<42966,42968,2,1>>, <<42997,42997,1,1>>,
       <<65313,65338,1,32>>, <<66560,66599,1,40>>, <<66736,66771,1,40>>,
       <<66928,66938,1,39>>, <<66940,66954,1,39>>, <<66956,66962,1,39>>,
       <<66964,66965,1,39>>, <<68736,68786,1,64>>, <<71840,71871,1,32>>,
       <<93760,93791,1,32>>, <<125184,125217,1,34>> >>

\* the code points str.lower() skips when it looks around a capital sigma
\* (case-ignorable), as <<lo, hi>>
CaseIgnorableRanges ==
    << <<39,39>>, <<46,46>>, <<58,58>>, <<94,94>>, <<96,96>>, <<168,168>>,
       <<173,173>>, <<175,175>>, <<180,180>>, <<183,184>>, <<688,879>>,
       <<884,885>>, <<890,890>>, <<900,901>>, <<903,903>>, <<1155,1161>>,
       <<1369,1369>>, <<1375,1375>>, <<1425,1469>>, <<1471,1471>>,
       <<1473,1474>>, <<1476,1477>>, <<1479,1479>>, <<1524,1524>>,
       <<1536,1541>>, <<1552,1562>>, <<1564,1564>>, <<1600,1600>>,
       <<1611,1631>>, <<1648,1648>>, <<1750,1757>>, <<1759,1768>>,
       <<1770,1773>>, <<1807,1807>>, <<1809,1809>>, <<1840,1866>>,
       <<1958,1968>>, <<2027,2037>>, <<2042,2042>>, <<2045,2045>>,
       <<2070,2093>>, <<2137,2139>>, <<2184,2184>>, <<2192,2193>>,
       <<2200,2207>>, <<2249,2306>>, <<2362,2362>>, <<2364,2364>>,
       <<2369,2376>>, <<2381,2381>>, <<2385,2391>>, <<2402,2403>>,
       <<2417,2417>>, <<2433,2433>>, <<2492,2492>>, <<2497,2500>>,
       <<2509,2509>>, <<2530,2531>>, <<2558,2558>>, <<2561,2562>>,
       <<2620,2620>>, <<2625,2626>>, <<2631,2632>>, <<2635,2637>>,
       <<2641,2641>>, <<2672,2673>>, <<2677,2677>>, <<2689,2690>>,
       <<2748,2748>>, <<2753,2757>>, <<2759,2760>>, <<2765,2765>>,
       <<2786,2787>>, <<2810,2815>>, <<2817,2817>>, <<2876,2876>>,
       <<2879,2879>>, <<2881,2884>>, <<2893,2893>>, <<2901,2902>>,
       <<2914,2915>>, <<2946,2946>>, <<3008,3008>>, <<3021,3021>>,
       <<3072,3072>>, <<3076,3076>>, <<3132,3132>>, <<3134,3136>>,
       <<3142,3144>>, <<3146,3149>>, <<3157,3158>>, <<3170,3171>>,
       <<3201,3201>>, <<3260,3260>>, <<3263,3263>>, <<3270,3270>>,
       <<3276,3277>>, <<3298,3299>>, <<3328,3329>>, <<3387,3388>>,
       <<3393,3396>>, <<3405,3405>>, <<3426,3427>>, <<3457,3457>>,
       <<3530,3530>>, <<3538,3540>>, <<3542,3542>>, <<3633,3633>>,
       <<3636,3642>>, <<3654,3662>>, <<3761,3761>>, <<3764,3772>>,
       <<3782,3782>>, <<3784,3789>>, <<3864,3865>>, <<3893,3893>>,
       <<3895,3895>>, <<3897,3897>>, <<3953,3966>>, <<3968,3972>>,
       <<3974,3975>>, <<3981,3991>>, <<3993,4028>>, <<4038,4038>>,
       <<4141,4144>>, <<4146,4151>>, <<4153,4154>>, <<4157,4158>>,
       <<4184,4185>>, <<4190,4192>>, <<4209,4212>>, <<4226,4226>>,
       <<4229,4230>>, <<4237,4237>>, <<4253,4253>>, <<4348,4348>>,
       <<4957,4959>>, <<5906,5908>>, <<5938,5939>>, <<5970,5971>>,
       <<6002,6003>>, <<6068,6069>>, <<6071,6077>>, <<6086,6086>>,
       <<6089,6099>>, <<6103,6103>>, <<6109,6109>>, <<6155,6159>>,
       <<6211,6211>>, <<6277,6278>>, <<6313,6313>>, <<6432,6434>>,
       <<6439,6440>>, <<6450,6450>>, <<6457,6459>>, <<6679,6680>>,
       <<6683,6683>>, <<6742,6742>>, <<6744,6750>>, <<6752,6752>>,
       <<6754,6754>>, <<6757,6764>>, <<6771,6780>>, <<6783,6783>>,
       <<6823,6823>>, <<6832,6862>>, <<6912,6915>>, <<6964,6964>>,
       <<6966,6970>>, <<6972,6972>>, <<6978,6978>>, <<7019,7027>>,
       <<7040,7041>>, <<7074,7077>>, <<7080,7081>>, <<7083,7085>>,
       <<7142,7142>>, <<7144,7145>>, <<7149,7149>>, <<7151,7153>>,
       <<7212,7219>>, <<7222,7223>>, <<7288,7293>>, <<7376,7378>>,
       <<7380,7392>>, <<7394,7400>>, <<7405,7405>>, <<7412,7412>>,
       <<7416,7417>>, <<7468,7530>>, <<7544,7544>>, <<7579,7679>>,
       <<8125,8125>>, <<8127,8129>>, <<8141,8143>>, <<8157,8159>>,
       <<8173,8175>>, <<8189,8190>>, <<8203,8207>>, <<8216,8217>>,
       <<8228,8228>>, <<8231,8231>>, <<8234,8238>>, <<8288,8292>>,
       <<8294,8303>>, <<8305,8305>>, <<8319,8319>>, <<8336,8348>>,
       <<8400,8432>>, <<11388,11389>>, <<11503,11505>>, <<11631,11631>>,
       <<11647,11647>>, <<11744,11775>>, <<11823,11823>>, <<12293,12293>>,
       <<12330,12333>>, <<12337,12341>>, <<12347,12347>>, <<12441,12446>>,
       <<12540,12542>>, <<40981,40981>>, <<42232,42237>>, <<42508,42508>>,
       <<42607,42610>>, <<42612,42621>>, <<42623,42623>>, <<42652,42655>>,
       <<42736,42737>>, <<42752,42785>>, <<42864,42864>>, <<42888,42890>>,
       <<42994,42996>>, <<43000,43001>>, <<43010,43010>>, <<43014,43014>>,
       <<43019,43019>>, <<43045,43046>>, <<43052,43052>>, <<43204,43205>>,
       <<43232,43249>>, <<43263,43263>>, <<43302,43309>>, <<43335,43345>>,
       <<43392,43394>>, <<43443,43443>>, <<43446,43449>>, <<43452,43453>>,
       <<43471,43471>>, <<43493,43494>>, <<43561,43566>>, <<43569,43570>>,
       <<43573,43574>>, <<43587,43587>>, <<43596,43596>>, <<43632,43632>>,
       <<43644,43644>>, <<43696,43696>>, <<43698,43700>>, <<43703,43704>>,
       <<43710,43711>>, <<43713,43713>>, <<43741,43741>>, <<43756,43757>>,
       <<43763,43764>>, <<43766,43766>>, <<43867,43871>>, <<43881,43883>>,
       <<44005,44005>>, <<44008,44008>>, <<44013,44013>>, <<64286,64286>>,
       <<64434,64450>>, <<65024,65039>>, <<65043,65043>>, <<65056,65071>>,
       <<65106,65106>>, <<65109,65109>>, <<65279,65279>>, <<65287,65287>>,
       <<65294,65294>>, <<65306,65306>>, <<65342,65342>>, <<65344,65344>>,
       <<65392,65392>>, <<65438,65439>>, <<65507,65507>>, <<65529,65531>>,
       <<66045,66045>>, <<66272,66272>>, <<66422,66426>>, <<67456,67461>>,
       <<67463,67504>>, <<67506,67514>>, <<68097,68099>>, <<68101,68102>>,
       <<68108,68111>>, <<68152,68154>>, <<68159,68159>>, <<68325,68326>>,
       <<68900,68903>>, <<69291,69292>>, <<69446,69456>>, <<69506,69509>>,
       <<69633,69633>>, <<69688,69702>>, <<69744,69744>>, <<69747,69748>>,
       <<69759,69761>>, <<69811,69814>>, <<69817,69818>>, <<69821,69821>>,
       <<69826,69826>>, <<69837,69837>>, <<69888,69890>>, <<69927,69931>>,
       <<69933,69940>>, <<70003,70003>>, <<70016,70017>>, <<70070,70078>>,
       <<70089,70092>>, <<70095,70095>>, <<70191,70193>>, <<70196,70196>>,
       <<70198,70199>>, <<70206,70206>>, <<70367,70367>>, <<70371,70378>>,
       <<70400,70401>>, <<70459,70460>>, <<70464,70464>>, <<70502,70508>>,
       <<70512,70516>>, <<70712,70719>>, <<70722,70724>>, <<70726,70726>>,
       <<70750,70750>>, <<70835,70840>>, <<70842,70842>>, <<70847,70848>>,
       <<70850,70851>>, <<71090,71093>>, <<71100,71101>>, <<71103,71104>>,
       <<71132,71133>>, <<71219,71226>>, <<71229,71229>>, <<71231,71232>>,
       <<71339,71339>>, <<71341,71341>>, <<71344,71349>>, <<71351,71351>>,
       <<71453,71455>>, <<71458,71461>>, <<71463,71467>>, <<71727,71735>>,
       <<71737,71738>>, <<71995,71996>>, <<71998,71998>>, <<72003,72003>>,
       <<72148,72151>>, <<72154,72155>>, <<72160,72160>>, <<72193,72202>>,
       <<72243,72248>>, <<72251,72254>>, <<72263,72263>>, <<72273,72278>>,
       <<72281,72283>>, <<72330,72342>>, <<72344,72345>>, <<72752,72758>>,
       <<72760,72765>>, <<72767,72767>>, <<72850,72871>>, <<72874,72880>>,
       <<72882,72883>>, <<72885,72886>>, <<73009,73014>>, <<73018,73018>>,
       <<73020,73021>>, <<73023,73029>>, <<73031,73031>>, <<73104,73105>>,
       <<73109,73109>>, <<73111,73111>>, <<73459,73460>>, <<78896,78904>>,
       <<92912,92916>>, <<92976,92982>>, <<92992,92995>>, <<94031,94031>>,
       <<94095,94111>>, <<94176,94177>>, <<94179,94180>>, <<110576,110579>>,
       <<110581,110587>>, <<110589,110590>>, <<113821,113822>>,
       <<113824,113827>>, <<118528,118573>>, <<118576,118598>>,
       <<119143,119145>>, <<119155,119170>>, <<119173,119179>>,
       <<119210,119213>>, <<119362,119364>>, <<121344,121398>>,
       <<121403,121452>>, <<121461,121461>>, <<121476,121476>>,
       <<121499,121503>>, <<121505,121519>>, <<122880,122886>>,
       <<122888,122904>>, <<122907,122913>>, <<122915,122916>>,
       <<122918,122922>>, <<123184,123197>>, <<123566,123566>>,
       <<123628,123631>>, <<125136,125142>>, <<125252,125259>>,
       <<127995,127999>>, <<917505,917505>>, <<917536,917631>>,
       <<917760,917999>> >>

\* the other code points that are cased letters, as <<lo, hi>>
CasedRanges ==
    << <<65,90>>, <<97,122>>, <<170,170>>, <<181,181>>, <<186,186>>,
       <<192,214>>, <<216,246>>, <<248,442>>, <<444,447>>, <<452,659>>,
       <<661,687>>, <<880,883>>, <<886,887>>, <<891,893>>, <<895,895>>,
       <<902,902>>, <<904,906>>, <<908,908>>, <<910,929>>, <<931,1013>>,
       <<1015,1153>>, <<1162,1327>>, <<1329,1366>>, <<1376,1416>>,
       <<4256,4293>>, <<4295,4295>>, <<4301,4301>>, <<4304,4346>>,
       <<4349,4351>>, <<5024,5109>>, <<5112,5117>>, <<7296,7304>>,
       <<7312,7354>>, <<7357,7359>>, <<7424,7467>>, <<7531,7543>>,
       <<7545,7578>>, <<7680,7957>>, <<7960,7965>>, <<7968,8005>>,
       <<8008,8013>>, <<8016,8023>>, <<8025,8025>>, <<8027,8027>>,
       <<8029,8029>>, <<8031,8061>>, <<8064,8116>>, <<8118,8124>>,
       <<8126,8126>>, <<8130,8132>>, <<8134,8140>>, <<8144,8147>>,
       <<8150,8155>>, <<8160,8172>>, <<8178,8180>>, <<8182,8188>>,
       <<8450,8450>>, <<8455,8455>>, <<8458,8467>>, <<8469,8469>>,
       <<8473,8477>>, <<8484,8484>>, <<8486,8486>>, <<8488,8488>>,
       <<8490,8493>>, <<8495,8500>>, <<8505,8505>>, <<8508,8511>>,
       <<8517,8521>>, <<8526,8526>>, <<8544,8575>>, <<8579,8580>>,
       <<9398,9449>>, <<11264,11387>>, <<11390,11492>>, <<11499,11502>>,
       <<11506,11507>>, <<11520,11557>>, <<11559,11559>>, <<11565,11565>>,
       <<42560,42605>>, <<42624,42651>>, <<42786,42863>>, <<42865,42887>>,
       <<42891,42894>>, <<42896,42954>>, <<42960,42961>>, <<42963,42963>>,
       <<42965,42969>>, <<42997,42998>>, <<43002,43002>>, <<43824,43866>>,
       <<43872,43880>>, <<43888,43967>>, <<64256,64262>>, <<64275,64279>>,
       <<65313,65338>>, <<65345,65370>>, <<66560,66639>>, <<66736,66771>>,
       <<66776,66811>>, <<66928,66938>>, <<66940,66954>>, <<66956,66962>>,
       <<66964,66965>>, <<66967,66977>>, <<66979,66993>>, <<66995,67001>>,
       <<67003,67004>>, <<68736,68786>>, <<68800,68850>>, <<71840,71903>>,
       <<93760,93823>>, <<119808,119892>>, <<119894,119964>>, <<119966,119967>>,
       <<119970,119970>>, <<119973,119974>>, <<119977,119980>>,
       <<119982,119993>>, <<119995,119995>>, <<119997,120003>>,
       <<120005,120069>>, <<120071,120074>>, <<120077,120084>>,
       <<120086,120092>>, <<120094,120121>>, <<120123,120126>>,
       <<120128,120132>>, <<120134,120134>>, <<120138,120144>>,
       <<120146,120485>>, <<120488,120512>>, <<120514,120538>>,
       <<120540,120570>>, <<120572,120596>>, <<120598,120628>>,
       <<120630,120654>>, <<120656,120686>>, <<120688,120712>>,
       <<120714,120744>>, <<120746,120770>>, <<120772,120779>>,
       <<122624,122633>>, <<122635,122654>>, <<125184,125251>>,
       <<127280,127305>>, <<127312,127337>>, <<127344,127369>> >>

InRanges(c, R) == \E i \in 1..Len(R) : R[i][1] <= c /\ c <= R[i][2]

\* the code point that c lowers to
LowerCode(c) ==
    IF \E i \in 1..Len(LowerRanges) :
           /\ LowerRanges[i][1] <= c
           /\ c <= LowerRanges[i][2]
           /\ (c - LowerRanges[i][1]) % LowerRanges[i][3] = 0
    THEN c + LowerRanges[CHOOSE i \in 1..Len(LowerRanges) :
                             /\ LowerRanges[i][1] <= c
                             /\ c <= LowerRanges[i][2]
                             /\ (c - LowerRanges[i][1]) % LowerRanges[i][3] = 0][4]
    ELSE c

\* str.lower() of the one character a, not a capital sigma: one character,
\* two for U+0130
LowerAtom(a) ==
    IF a = "U+0130" THEN <<"i", "U+0307">> ELSE <<Chr(LowerCode(Ord(a)))>>

CaseIgnorable(a) == InRanges(Ord(a), CaseIgnorableRanges)

Cased(a) == InRanges(Ord(a), CasedRanges)

\* the capital sigma at index i of the characters cs is the last letter of a
\* word: a cased letter stands before it and none after it, the
\* case-ignorable characters in between skipped.  j, k: where the search
\* backwards and forwards stands
RECURSIVE FinalSigma(_, _, _, _)
FinalSigma(cs, i, j, k) ==
    IF j >= 1 /\ CaseIgnorable(cs[j]) THEN FinalSigma(cs, i, j - 1, k)
    ELSE IF j < 1 \/ ~Cased(cs[j]) THEN FALSE
    ELSE IF k <= Len(cs) /\ CaseIgnorable(cs[k]) THEN FinalSigma(cs, i, j, k + 1)
    ELSE k > Len(cs) \/ ~Cased(cs[k])

\* the characters cs lowered from index i on
RECURSIVE LowerFrom(_, _)
LowerFrom(cs, i) ==
    IF i > Len(cs) THEN <<>>
    ELSE (IF cs[i] = "U+03A3"
          THEN <<IF FinalSigma(cs, i, i - 1, i + 1) THEN "U+03C2" ELSE "U+03C3">>
          ELSE LowerAtom(cs[i])) \o LowerFrom(cs, i + 1)

\* str.lower()
Lower(txt) == Recut(LowerFrom(Chars(txt), 1), <<>>)

-----------------------------------------------------------------------------
(* json.loads *)

\* sys.int_info.default_max_str_digits: int() of a longer run of digits
\* raises ValueError
MaxStrDigits == 4300

\* sys.getrecursionlimit(), which app.py does not set
RecursionLimit == 1000

\* the containers the scanner can be inside of, one in the other (CPython
\* 3.11): the recursion limit less the depth in use where the scanner meets
\* the first container, which is the seven calls in progress, the script
\* (509), main (505-506), render_sidebar or render_main_content (334, 430),
\* the operation (160, 270), json.loads, JSONDecoder.decode and
\* JSONDecoder.raw_decode, and the call of the scanner; a runtime that calls
\* the script from deeper down lowers it by the calls it adds
MaxNesting == RecursionLimit - 8

\* the outcome of a scan: a value and the index after it, or an exception
Parsed(v, p) == [ok |-> TRUE, v |-> v, p |-> p, err |-> "none"]

Raised(e) == [ok |-> FALSE, v |-> NoneV, p |-> 0, err |-> e]

\* json.JSONDecodeError
Fail == Raised("JSONDecodeError")

SkipWs(txt, p) == SkipUp(txt, p, JsonWsAtoms)

\* the last index of the run of digits that starts at p
RunEnd(txt, p) == SkipUp(txt, p, Digits) - 1

RECURSIVE DecVal(_, _, _)
DecVal(txt, p, e) ==
    IF e < p THEN 0 ELSE 10 * DecVal(txt, p, e - 1) + DigitVal(txt[e])

RECURSIVE Pow10(_)
Pow10(k) == IF k = 0 THEN 1 ELSE 10 * Pow10(k - 1)

RECURSIVE NumDigits(_)
NumDigits(n) == IF n < 10 THEN 1 ELSE 1 + NumDigits(n \div 10)

\* n * 10^e with the trailing zeros of n moved into e
RECURSIVE Normal(_, _)
Normal(n, e) ==
    IF n = 0 THEN FloatV(0, 0)
    ELSE IF n % 10 = 0 THEN Normal(n \div 10, e + 1)
    ELSE FloatV(n, e)

\* the first nine digits of n as a number; n has nd <= 9 digits
Lead9(n, nd) == n * Pow10(9 - nd)

\* n * 10^e = d.ddd * 10^308 is beyond the largest double, 1.797693134862...
Overflows(n, nd) == IF nd <= 9 THEN Lead9(n, nd) >= 179769314 ELSE n >= 1797693135

\* n * 10^e = d.ddd * 10^-324 is at most half the smallest double, 2.4703282292...
Underflows(n, nd) == IF nd <= 9 THEN Lead9(n, nd) <= 247032822 ELSE TRUE

\* float(text) for the decimal n * 10^e, n >= 0, of magnitude d.ddd * 10^k:
\* beyond the largest double it is inf, below half the smallest it is 0.0
FloatOf(neg, n, e, nd, k) ==
    IF k > 308 \/ (k = 308 /\ Overflows(n, nd)) THEN InfV(neg)
    ELSE IF k < -324 \/ (k = -324 /\ Underflows(n, nd)) THEN FloatV(0, 0)
    ELSE Normal(IF neg THEN 0 - n ELSE n, e)

MakeFloat(neg, n, e) ==
    IF n = 0 THEN FloatV(0, 0)
    ELSE FloatOf(neg, n, e, NumDigits(n), NumDigits(n) + e - 1)

\* the value of the four hexadecimal digits at p, -1 when they are not there
Hex4At(txt, p) ==
    IF p + 3 <= Len(txt) /\ \A i \in p..(p + 3) : txt[i] \in HexDigits
    THEN 4096 * HexVal(txt[p]) + 256 * HexVal(txt[p + 1])
             + 16 * HexVal(txt[p + 2]) + HexVal(txt[p + 3])
    ELSE -1

\* the character a one-letter escape stands for
Unescape(a) ==
    IF a \in {QUOTE, BACKSLASH, "/"} THEN a
    ELSE Chr(CASE a = "b" -> 8
               [] a = "f" -> 12
               [] a = "n" -> 10
               [] a = "r" -> 13
               [] a = "t" -> 9)

\* the inside of a string literal from p on; acc is what was decoded so far
RECURSIVE ScanString(_, _, _)
ScanString(txt, p, acc) ==
    IF p > Len(txt) THEN Fail
    ELSE IF txt[p] = QUOTE THEN Parsed(StrV(Recut(acc, <<>>)), p + 1)
    ELSE IF txt[p] \in ControlAtoms THEN Fail
    ELSE IF txt[p] # BACKSLASH THEN ScanString(txt, p + 1, Append(acc, txt[p]))
    ELSE IF p + 1 > Len(txt) THEN Fail
    ELSE IF txt[p + 1] \in {QUOTE, BACKSLASH, "/", "b", "f", "n", "r", "t"}
    THEN ScanString(txt, p + 2, Append(acc, Unescape(txt[p + 1])))
    ELSE IF txt[p + 1] # "u" THEN Fail
    ELSE LET c == Hex4At(txt, p + 2)
             c2 == IF MatchAt(txt, p + 6, <<BACKSLASH, "u">>)
                   THEN Hex4At(txt, p + 8) ELSE -1
         IN  IF c < 0 THEN Fail
             ELSE IF c \in 55296..56319 /\ c2 \in 56320..57343
             THEN ScanString(txt, p + 12,
                             Append(acc, Chr(65536 + 1024 * (c - 55296) + (c2 - 56320))))
             ELSE ScanString(txt, p + 6, Append(acc, Chr(c)))

\* a string literal whose opening quote is at p
ParseString(txt, p) == ScanString(txt, p + 1, <<>>)

\* the last index of the integer part whose first digit is at d: 0|[1-9]\d*
IntEnd(txt, d) == IF txt[d] = "0" THEN d ELSE RunEnd(txt, d)

\* the last index of the fraction (\.\d+)? that may follow index i; i when
\* there is none
FracEnd(txt, i) ==
    IF i + 2 <= Len(txt) /\ txt[i + 1] = "." /\ txt[i + 2] \in Digits
    THEN RunEnd(txt, i + 2)
    ELSE i

\* the index of the first digit of the exponent ([eE][-+]?\d+)? that may
\* follow index i; 0 when there is none
ExpDigits(txt, i) ==
    IF i + 2 <= Len(txt) /\ txt[i + 1] \in {"e", "E"} /\ txt[i + 2] \in Digits
    THEN i + 2
    ELSE IF /\ i + 3 <= Len(txt)
            /\ txt[i + 1] \in {"e", "E"}
            /\ txt[i + 2] \in {"+", "-"}
            /\ txt[i + 3] \in Digits
    THEN i + 3
    ELSE 0

\* float(text) for a number with a fraction or an exponent: integer part
\* d..i, fraction up to f, exponent digits from x (0: none)
FloatAt(txt, neg, d, i, f, x) ==
    MakeFloat(neg,
              DecVal(txt, d, i) * Pow10(f - i - (IF f > i THEN 1 ELSE 0))
                  + (IF f > i THEN DecVal(txt, i + 2, f) ELSE 0),
              (IF x = 0 THEN 0
               ELSE IF txt[x - 1] = "-" THEN 0 - DecVal(txt, x, RunEnd(txt, x))
               ELSE DecVal(txt, x, RunEnd(txt, x)))
                  - (f - i - (IF f > i THEN 1 ELSE 0)))

\* the number whose first digit is at d: float(text) with a fraction or an
\* exponent, int(text) otherwise
NumberAt(txt, neg, d, i, f, x) ==
    IF f > i \/ x # 0
    THEN Parsed(FloatAt(txt, neg, d, i, f, x), (IF x = 0 THEN f ELSE RunEnd(txt, x)) + 1)
    ELSE IF i - d + 1 > MaxStrDigits THEN Raised("ValueError")
    ELSE Parsed(IntV(IF neg THEN 0 - DecVal(txt, d, i) ELSE DecVal(txt, d, i)), i + 1)

\* a number that starts at p:  -?(0|[1-9]\d*)(\.\d+)?([eE][-+]?\d+)?
ParseNumber(txt, p) ==
    IF txt[p] = "-"
    THEN IF p + 1 > Len(txt) \/ txt[p + 1] \notin Digits THEN Fail
         ELSE NumberAt(txt, TRUE, p + 1, IntEnd(txt, p + 1),
                       FracEnd(txt, IntEnd(txt, p + 1)),
                       ExpDigits(txt, FracEnd(txt, IntEnd(txt, p + 1))))
    ELSE NumberAt(txt, FALSE, p, IntEnd(txt, p), FracEnd(txt, IntEnd(txt, p)),
                  ExpDigits(txt, FracEnd(txt, IntEnd(txt, p))))

RECURSIVE ParseValue(_, _, _), ParseMembers(_, _, _, _), MemberValue(_, _, _, _)
RECURSIVE MemberEnd(_, _, _, _, _), NextMember(_, _, _, _)
RECURSIVE ParseElements(_, _, _, _), ElementEnd(_, _, _, _), NextElement(_, _, _, _)

\* a value that starts at p (white space already skipped), the scanner being
\* inside d containers; entering a container beyond MaxNesting raises
\* RecursionError.  Opening brackets that stand in a row from p on are as many
\* arrays entered, one in the other, before anything else is read
ParseValue(txt, p, d) ==
    IF p > Len(txt) THEN Fail
    ELSE CASE txt[p] = QUOTE -> ParseString(txt, p)
           [] txt[p] = "{" ->
                IF d + 1 > MaxNesting THEN Raised("RecursionError")
                ELSE IF SkipWs(txt, p + 1) <= Len(txt) /\ txt[SkipWs(txt, p + 1)] = "}"
                THEN Parsed(DictV(<<>>), SkipWs(txt, p + 1) + 1)
                ELSE ParseMembers(txt, SkipWs(txt, p + 1), <<>>, d + 1)
           [] txt[p] = "[" ->
                IF d + (SkipUp(txt, p, {"["}) - p) > MaxNesting
                THEN Raised("RecursionError")
                ELSE IF SkipWs(txt, p + 1) <= Len(txt) /\ txt[SkipWs(txt, p + 1)] = "]"
                THEN Parsed(ListV(<<>>), SkipWs(txt, p + 1) + 1)
                ELSE ParseElements(txt, SkipWs(txt, p + 1), <<>>, d + 1)
           [] txt[p] = "null" -> Parsed(NoneV, p + 1)
           [] txt[p] = "true" -> Parsed(BoolV(TRUE), p + 1)
           [] txt[p] = "false" -> Parsed(BoolV(FALSE), p + 1)
           [] txt[p] \in Digits -> ParseNumber(txt, p)
           [] txt[p] = "-" ->
                IF p + 1 <= Len(txt) /\ txt[p + 1] \in Digits THEN ParseNumber(txt, p)
                ELSE IF MatchAt(txt, p, <<"-", "I", "nfinity">>)
                THEN Parsed(InfV(TRUE), p + 3)
                ELSE Fail
           [] MatchAt(txt, p, <<"N", "a", "N">>) -> Parsed(NaNV, p + 3)
           [] MatchAt(txt, p, <<"I", "nfinity">>) -> Parsed(InfV(FALSE), p + 2)
           [] OTHER -> Fail

\* "key" : value pairs up to the closing brace; p is where a key must start
ParseMembers(txt, p, acc, d) ==
    IF p > Len(txt) \/ txt[p] # QUOTE THEN Fail
    ELSE MemberValue(txt, ParseString(txt, p), acc, d)

\* after the key: white space, the colon, white space, the value
MemberValue(txt, key, acc, d) ==
    IF ~key.ok THEN Fail
    ELSE IF SkipWs(txt, key.p) > Len(txt) \/ txt[SkipWs(txt, key.p)] # ":" THEN Fail
    ELSE MemberEnd(txt, key.v.s,
                   ParseValue(txt, SkipWs(txt, SkipWs(txt, key.p) + 1), d), acc, d)

\* after the value: the pair is stored, a later pair of the same key wins; an
\* exception inside the value is the exception of the whole
MemberEnd(txt, k, val, acc, d) ==
    IF ~val.ok THEN val
    ELSE NextMember(txt, SkipWs(txt, val.p), DictSet(acc, k, val.v), d)

\* after a pair: the closing brace, or a comma and the next pair
NextMember(txt, p, acc, d) ==
    IF p > Len(txt) THEN Fail
    ELSE IF txt[p] = "}" THEN Parsed(DictV(acc), p + 1)
    ELSE IF txt[p] = "," THEN ParseMembers(txt, SkipWs(txt, p + 1), acc, d)
    ELSE Fail

\* values up to the closing bracket; p is where a value must start
ParseElements(txt, p, acc, d) == ElementEnd(txt, ParseValue(txt, p, d), acc, d)

\* after the value: it is appended; an exception inside the value is the
\* exception of the whole
ElementEnd(txt, val, acc, d) ==
    IF ~val.ok THEN val
    ELSE NextElement(txt, SkipWs(txt, val.p), Append(acc, Member(<<>>, val.v)), d)

\* after a value: the closing bracket, or a comma and the next value
NextElement(txt, p, acc, d) ==
    IF p > Len(txt) THEN Fail
    ELSE IF txt[p] = "]" THEN Parsed(ListV(acc), p + 1)
    ELSE IF txt[p] = "," THEN ParseElements(txt, SkipWs(txt, p + 1), acc, d)
    ELSE Fail

\* the parsed value r stands for the whole text: only white space follows it
WholeText(txt, r) ==
    IF ~r.ok THEN r
    ELSE IF SkipWs(txt, r.p) = Len(txt) + 1 THEN r
    ELSE Fail

\* json.loads(txt): the value, or the exception it raises: JSONDecodeError,
\* RecursionError, ValueError
JsonLoads(txt) == WholeText(txt, ParseValue(txt, SkipWs(txt, 1), 0))
-----------------------------------------------------------------------------
(* The model service *)

\* what client.messages.create does: it returns prefix + body + suffix
\* (api = "ok"), raises json.JSONDecodeError (api = "decode_error"), or
\* raises another exception (api = "error")
Reply(api, prefix, body, suffix) ==
    [api |-> api, prefix |-> prefix, body |-> body, suffix |-> suffix]

NoReply == Reply("none", <<>>, <<>>, <<>>)

ApiError == Reply("error", <<>>, <<>>, <<>>)

ApiDecodeError == Reply("decode_error", <<>>, <<>>, <<>>)

\* response.content[0].text
Text(rep) == rep.prefix \o rep.body \o rep.suffix

\* client.messages.create(system=..., messages=[user]): the parts of the prompts
Request(op, system, user) == [op |-> op, system |-> system, user |-> user]

NoRequest == Request("none", <<>>, <<>>)

\* what a call returned (val) and what it put on the page: an error message,
\* and after "Raw response:" the reply ("reply"), the words "No response", or
\* nothing ("none"); halted: the script was stopped by st.stop()
Ret(op, val, error, raw, halted) ==
    [op |-> op, val |-> val, error |-> error, raw |-> raw, halted |-> halted]

NoOut == Ret("none", NoneV, FALSE, "none", FALSE)

\* a user action: which one, the text in the answer box when it is a submit,
\* and st.session_state.user_answer as it was when the action arrived
Act(op, answer, held) == [op |-> op, answer |-> answer, held |-> held]

\* the JSONDecodeError handler without its st.write
DecodeFailureNoRaw(op, bound) == Ret(op, NoneV, TRUE, "none", FALSE)

\* except json.JSONDecodeError: st.error, st.write("Raw response:", ...), None;
\* bound: response_text was assigned before the exception
DecodeFailure(op, bound) ==
    Ret(op, NoneV, TRUE, IF bound THEN "reply" ELSE "No response", FALSE)

\* except Exception: st.error, None
OtherFailure(op) == Ret(op, NoneV, TRUE, "none", FALSE)

-----------------------------------------------------------------------------
(* generate_sql_question and grade_sql_answer *)

\* the slice written json_text[start_idx:end_idx]
ExtractJsonShort(response_text) ==
    LET json_text == Strip(response_text)
        start_idx == Find(json_text, "{")
        end_idx == RFind(json_text, "}")
    IN  IF start_idx # 0 /\ end_idx # 0
        THEN SubSeq(json_text, start_idx, end_idx - 1)
        ELSE json_text

\* json_text = response_text.strip(); json_text[start_idx:end_idx + 1]
ExtractJson(response_text) ==
    LET json_text == Strip(response_text)
        start_idx == Find(json_text, "{")
        end_idx == RFind(json_text, "}")
    IN  IF start_idx # 0 /\ end_idx # 0
        THEN SubSeq(json_text, start_idx, end_idx)
        ELSE json_text

\* field in data
PyIn(field, data) ==
    CASE data.t = "obj" -> \E i \in 1..Len(data.m) : data.m[i].k = field
      [] data.t = "arr" -> \E i \in 1..Len(data.m) : data.m[i].v = StrV(field)
      [] data.t = "str" -> IsSubSeq(field, data.s)
      [] OTHER -> FALSE

\* field in data raises TypeError
PyInRaises(data) == data.t \in {"none", "int", "float", "bool"}

\* all(field in data for field in required_fields)
AllFieldsIn(required_fields, data) ==
    \A i \in 1..Len(required_fields) : PyIn(required_fields[i], data)

QuestionFields == << <<"question_text">>, <<"schema_description">>,
                     <<"reference_sql">>, <<"explanation">> >>

GradingFields == << <<"score">>, <<"verdict">>, <<"feedback">> >>

\* lines 160-167 and the two handlers: data is what json.loads gave or
\* raised; RecursionError and ValueError are not JSONDecodeError and go to
\* except Exception
Validate(op, data, required_fields) ==
    IF ~data.ok
    THEN (IF data.err = "JSONDecodeError" THEN DecodeFailure(op, TRUE)
          ELSE OtherFailure(op))
    ELSE IF PyInRaises(data.v) \/ ~AllFieldsIn(required_fields, data.v)
    THEN OtherFailure(op)
    ELSE Ret(op, data.v, FALSE, "none", FALSE)

\* the try block: the call, then extract, parse, validate
ParseReply(op, rep, required_fields) ==
    IF rep.api = "error"
    THEN OtherFailure(op)
    ELSE IF rep.api = "decode_error"
    THEN DecodeFailure(op, FALSE)
    ELSE Validate(op, JsonLoads(ExtractJson(Text(rep))), required_fields)

\* get_claude_client() without the check of the key
ClientNeverHalts(key) == FALSE

\* get_claude_client(): st.error and st.stop() when the key is not set
ClientHalts(key) == ~key

\* which of the two paragraphs is put into the system prompt, by its words
\* "for ... roles"
TrackGuidance(tr) ==
    IF IsSubSeq(<<"A", "nalytics">>, tr)
    THEN <<"A", "nalytics", "/", "B", "I", " ", "roles">>
    ELSE <<"D", "ata", " ", "E", "ngineer", " ", "roles">>

\* difficulty_guidance.get(difficulty, ""): each sentence by its first words
DifficultyGuidance(di) ==
    CASE di = <<"B", "eginner">> -> <<"K", "eep", " ", "it", " ", "simple">>
      [] di = <<"I", "ntermediate">> -> <<"U", "se", " ", "2", "-", "3", " ", "tables">>
      [] di = <<"A", "dvanced">> -> <<"C", "omplex", " ", "multi", "-", "table">>
      [] OTHER -> <<>>

\* the values formatted into the system prompt and into the user prompt
GenerateRequest(tr, di, dl) ==
    Request("generate",
            <<StrV(TrackGuidance(tr)), StrV(di), StrV(DifficultyGuidance(di)),
              StrV(dl), StrV(di), StrV(tr)>>,
            <<StrV(Lower(di)), StrV(tr), StrV(dl)>>)

GradeRequest(question_text, schema_description, reference_sql, user_sql, di, tr) ==
    Request("grade", <<>>,
            <<question_text, schema_description, reference_sql, StrV(user_sql),
              di, tr>>)

generate_sql_question(tr, di, dl, key, rep) ==
    IF ClientHalts(key)
    THEN Ret("generate", NoneV, TRUE, "none", TRUE)
    ELSE ParseReply("generate", rep, QuestionFields)

grade_sql_answer(question_text, schema_description, reference_sql, user_sql, di, tr, key, rep) ==
    IF ClientHalts(key)
    THEN Ret("grade", NoneV, TRUE, "none", TRUE)
    ELSE ParseReply("grade", rep, GradingFields)

-----------------------------------------------------------------------------
(* The page *)

View(main, metaDialect, submitButton, results, msgs) ==
    [sidebar |-> TRUE, main |-> main, metaDialect |-> metaDialect,
     submitButton |-> submitButton, results |-> results, msgs |-> msgs]

\* score >= 90 raises TypeError
ScoreRaises(score) == score.t \notin {"int", "float", "bool"}

\* verdict == "Correct" is false and "Partial" in verdict raises TypeError
VerdictRaises(verdict) == verdict.t \in {"none", "int", "float", "bool"}

\* if st.session_state.grading_result: render_grading_results()
RenderResults(gr) ==
    IF ~Truthy(gr) THEN "none"
    ELSE IF gr.t # "obj" THEN "exception"
    ELSE IF ScoreRaises(Get(gr, <<"score">>)) THEN "exception"
    ELSE IF VerdictRaises(Get(gr, <<"verdict">>)) THEN "exception"
    ELSE "shown"

\* render_sidebar (selectors and button) and render_main_content up to the
\* submit button; results is what line 444 onwards adds
RenderPage(cq, gr, dl, msgs) ==
    IF cq = NoneV THEN View("welcome", <<>>, FALSE, "none", msgs)
    ELSE IF cq.t # "obj" THEN View("exception", <<>>, FALSE, "none", msgs)
    ELSE View("question", dl, TRUE, RenderResults(gr), msgs)

\* the script stopped inside the sidebar's button handler
HaltedInSidebar == View("halted", <<>>, FALSE, "none", {"error"})

\* the script stopped inside the submit handler
HaltedInSubmit(dl) == View("question", dl, TRUE, "none", {"error"})

Msgs(r) ==
    (IF r.error THEN {"error"} ELSE {}) \cup (IF r.raw # "none" THEN {"raw"} ELSE {})

\* question.get(key, default)
GetOr(v, k, d) == IF HasKey(v, k) THEN Get(v, k) ELSE d

-----------------------------------------------------------------------------
(* Inputs: what the user can type and what the model can reply *)

RECURSIVE SeqsUpTo(_, _)
SeqsUpTo(S, n) ==
    IF n = 0 THEN {<<>>}
    ELSE LET shorter == SeqsUpTo(S, n - 1)
         IN  shorter \cup {Append(q, a) : q \in shorter, a \in S}

\* empty, white space only, and an answer with something in it
Answers == {<<>>, <<"\t", "U+00A0">>, <<"\n", "select", " ", "1">>}

Lit(a) == <<QUOTE>> \o a \o <<QUOTE>>

Pair(k, valueText) == Lit(<<k>>) \o <<":", " ">> \o valueText

RECURSIVE JoinPairs(_)
JoinPairs(pairs) ==
    IF Len(pairs) = 0 THEN <<>>
    ELSE IF Len(pairs) = 1 THEN pairs[1]
    ELSE pairs[1] \o <<",", " ">> \o JoinPairs(Tail(pairs))

Obj(pairs) == <<"{">> \o JoinPairs(pairs) \o <<"}">>

QuestionBody == Obj(<<Pair("question_text", Lit(<<"Q">>)),
                      Pair("schema_description", Lit(<<"S">>)),
                      Pair("reference_sql", Lit(<<"R">>)),
                      Pair("explanation", Lit(<<"E">>)),
                      Pair("difficulty", Lit(<<"B", "eginner">>)),
                      Pair("track", Lit(<<"A", "nalytics">>))>>)

\* another question
QuestionSecond == Obj(<<Pair("question_text", Lit(<<"Q", "2">>)),
                        Pair("schema_description", Lit(<<"S">>)),
                        Pair("reference_sql", Lit(<<"R", "2">>)),
                        Pair("explanation", Lit(<<"E">>))>>)

QuestionEmptyText == Obj(<<Pair("question_text", Lit(<<>>)),
                           Pair("schema_description", Lit(<<"S">>)),
                           Pair("reference_sql", Lit(<<"R">>)),
                           Pair("explanation", Lit(<<"E">>))>>)

QuestionNullSql == Obj(<<Pair("question_text", Lit(<<"Q">>)),
                         Pair("schema_description", Lit(<<"S">>)),
                         Pair("reference_sql", <<"null">>),
                         Pair("explanation", <<"4", "2">>)>>)

QuestionNoExplanation == Obj(<<Pair("question_text", Lit(<<"Q">>)),
                               Pair("schema_description", Lit(<<"S">>)),
                               Pair("reference_sql", Lit(<<"R">>))>>)

\* escapes inside the strings: \" \n A and a surrogate pair
QuestionEscapes ==
    Obj(<<Pair("question_text", Lit(<<"F", "ind", " ", BACKSLASH, QUOTE, "x",
                                      BACKSLASH, QUOTE, BACKSLASH, "n">>)),
          Pair("schema_description", Lit(<<BACKSLASH, "u", "0", "0", "4", "1">>)),
          Pair("reference_sql",
               Lit(<<BACKSLASH, "u", "d", "8", "3", "d", BACKSLASH, "u", "D", "E", "0", "0">>)),
          Pair("explanation", Lit(<<BACKSLASH, BACKSLASH, BACKSLASH, "/">>))>>)

\* laid out with tabs, carriage returns and line feeds
QuestionIndented ==
    <<"{", "\r", "\n", "\t">> \o Lit(<<"question_text">>) \o <<":", "\t">> \o Lit(<<"Q">>)
        \o <<",", "\r", "\n", "\t">> \o Lit(<<"schema_description">>) \o <<":">> \o Lit(<<"S">>)
        \o <<"\t", ",">> \o Lit(<<"reference_sql">>) \o <<"\t", ":">> \o Lit(<<"R">>)
        \o <<",">> \o Lit(<<"explanation">>) \o <<":">> \o Lit(<<"E">>) \o <<"\r", "\n", "}">>

\* an escape that json does not know
QuestionBadEscape == Obj(<<Pair("question_text", Lit(<<"a", BACKSLASH, "q", "b">>)),
                           Pair("schema_description", Lit(<<"S">>)),
                           Pair("reference_sql", Lit(<<"R">>)),
                           Pair("explanation", Lit(<<"E">>))>>)

\* a form feed between the tokens, which json does not skip
QuestionFormFeed == <<"{", "\f">> \o SubSeq(QuestionBody, 2, Len(QuestionBody))

QuestionAsList == <<"[">> \o JoinPairs(<<Lit(<<"question_text">>),
                                         Lit(<<"schema_description">>),
                                         Lit(<<"reference_sql">>),
                                         Lit(<<"explanation">>)>>) \o <<"]">>

QuestionAsString == Lit(<<"question_text", " ", "schema_description", " ",
                          "reference_sql", " ", "explanation">>)

GradingBody == Obj(<<Pair("score", <<"8", "5">>),
                     Pair("verdict", Lit(<<"C", "orrect">>)),
                     Pair("feedback", Lit(<<"G", "ood">>)),
                     Pair("suggested_answer", Lit(<<"select", " ", "1">>))>>)

GradingStringScore == Obj(<<Pair("score", Lit(<<"8", "5">>)),
                            Pair("verdict", Lit(<<"C", "orrect">>)),
                            Pair("feedback", Lit(<<"G", "ood">>))>>)

GradingFloatScore == Obj(<<Pair("score", <<"8", ".", "5">>),
                           Pair("verdict", <<"null">>),
                           Pair("feedback", Lit(<<"G", "ood">>))>>)

GradingNegativeScore == Obj(<<Pair("score", <<"-", "5">>),
                              Pair("verdict", Lit(<<"C", "orrect">>)),
                              Pair("feedback", Lit(<<"G", "ood">>))>>)

GradingExponentScore == Obj(<<Pair("score", <<"1", ".", "5", "E", "+", "2">>),
                              Pair("verdict", Lit(<<"C", "orrect">>)),
                              Pair("feedback", Lit(<<"G", "ood">>))>>)

GradingNaNScore == Obj(<<Pair("score", <<"N", "a", "N">>),
                         Pair("verdict", <<"-", "I", "nfinity">>),
                         Pair("feedback", <<"1", "e", "4", "0", "0">>)>>)

GradingEmptyFeedback == Obj(<<Pair("score", <<"0">>),
                              Pair("verdict", Lit(<<"I", "ncorrect">>)),
                              Pair("feedback", Lit(<<>>))>>)

GradingNoFeedback == Obj(<<Pair("score", <<"7", "0">>),
                           Pair("verdict", Lit(<<"P", "artially", " ", "C", "orrect">>))>>)

\* a literal line break inside the feedback string
GradingRawNewline == Obj(<<Pair("score", <<"9", "0">>),
                           Pair("verdict", Lit(<<"C", "orrect">>)),
                           Pair("feedback", Lit(<<"G", "ood", "\n", "job">>))>>)

\* a literal tab inside the feedback string
GradingRawTab == Obj(<<Pair("score", <<"9", "0">>),
                       Pair("verdict", Lit(<<"C", "orrect">>)),
                       Pair("feedback", Lit(<<"G", "ood", "\t", "job">>))>>)

Repeat(a, n) == [i \in 1..n |-> a]

\* not closed, and nested deeper than the interpreter's recursion limit
GradingDeepFeedback ==
    <<"{">> \o Lit(<<"feedback">>) \o <<":", " ">> \o Repeat("[", RecursionLimit)

\* a score of more digits than int() converts
GradingLongScore == Obj(<<Pair("score", Repeat("1", MaxStrDigits + 1)),
                          Pair("verdict", Lit(<<"C", "orrect">>)),
                          Pair("feedback", Lit(<<"G", "ood">>))>>)

\* a question whose explanation is a list of lists beyond the recursion limit
QuestionDeepExplanation ==
    Obj(<<Pair("question_text", Lit(<<"Q">>)),
          Pair("schema_description", Lit(<<"S">>)),
          Pair("reference_sql", Lit(<<"R">>)),
          Pair("explanation", Repeat("[", RecursionLimit) \o Repeat("]", RecursionLimit))>>)

\* cut off before the closing brace
QuestionTruncated == SubSeq(QuestionBody, 1, Len(QuestionBody) - 1)

Bodies == {QuestionBody, QuestionEmptyText, QuestionNullSql,
           QuestionNoExplanation, QuestionEscapes, QuestionIndented,
           GradingBody, GradingStringScore, GradingFloatScore,
           GradingNegativeScore, GradingExponentScore, GradingNaNScore,
           GradingEmptyFeedback, GradingNoFeedback, <<"{", "}">>,
           QuestionAsList, QuestionAsString, QuestionBadEscape,
           QuestionFormFeed, GradingRawNewline, GradingRawTab,
           QuestionTruncated, <<"4", "2">>, <<"-", "5">>, <<"N", "a", "N">>,
           <<"1", "e", "5">>, <<"null">>, <<"S", "orry">>, <<>>}

Pads == SeqsUpTo({"\t", "{", "}"}, MaxPad)

Prefixes == Pads \cup {<<"S", "ure", "!", " ">>, <<"\r", "\n", "H", "ere", ":", "\n">>,
                       <<"U+00A0">>}

Suffixes == Pads \cup {<<" ", "H", "ope", " ", "that", " ", "helps", ".">>,
                       <<"\r", "\n">>, <<"\f">>}

\* every outcome of the call the function-level specification feeds to the
\* two operations, the last three bodies being beyond a limit of the decoder
Replies ==
    {ApiError, ApiDecodeError} \cup
    {Reply("ok", pre, body, suf) : pre \in Prefixes, body \in Bodies, suf \in Suffixes}
        \cup {Reply("ok", pre, body, <<>>) :
                  pre \in {<<>>, <<"S", "ure", "!", " ">>},
                  body \in {GradingDeepFeedback, GradingLongScore,
                            QuestionDeepExplanation}}

\* the replies the session-level specification draws from
SessionBodies == {QuestionBody, QuestionSecond, QuestionAsList, GradingBody,
                  GradingStringScore, GradingRawNewline}

SessionReplies ==
    {ApiError} \cup {Reply("ok", <<>>, body, <<>>) : body \in SessionBodies}

\* questions the function-level specification grades against
SampleQuestions == {JsonLoads(QuestionBody).v, JsonLoads(QuestionNullSql).v}

-----------------------------------------------------------------------------
(* The session.  A user action starts a script run of main().  A run that   *)
(* calls the model waits in client.messages.create, and nothing else        *)
(* happens until the call returns: the run is synchronous.  A run that      *)
(* stored a result ends with st.rerun() and is followed by a second run     *)
(* that renders the page.                                                   *)

Init ==
    /\ apiKey \in BOOLEAN
    /\ current_question = NoneV
    /\ grading_result = NoneV
    /\ user_answer = <<>>
    /\ track = TRACKS[1]
    /\ difficulty = DIFFICULTY_LEVELS[1]
    /\ dialect = SQL_DIALECTS[1]
    /\ pc = "idle"
    /\ view = RenderPage(NoneV, NoneV, SQL_DIALECTS[1], {})
    /\ act = Act("start", <<>>, <<>>)
    /\ reply = NoReply
    /\ request = NoRequest
    /\ out = NoOut
    /\ gradedQuestion = NoneV
    /\ prior = FALSE
    /\ genDialect = <<>>

\* the page is rendered and no script run is under way: a user action starts
\* a run
Ready == pc = "idle"

\* a script run in which no button handler runs
NoButtonRun ==
    /\ view' = RenderPage(current_question, grading_result, dialect', {})
    /\ pc' = "idle"
    /\ reply' = NoReply
    /\ request' = NoRequest
    /\ out' = NoOut
    /\ UNCHANGED <<apiKey, current_question, grading_result, user_answer,
                   gradedQuestion, prior, genDialect>>

\* a script run that no button and no changed selector started: the text
\* area was edited, or a selector was set to the value it has
PlainRun ==
    /\ Ready
    /\ act' = Act("plain", <<>>, user_answer)
    /\ UNCHANGED <<track, difficulty, dialect>>
    /\ NoButtonRun

SelectTrack ==
    /\ Ready
    /\ view.sidebar
    /\ \E v \in Range(TRACKS) : v # track /\ track' = v
    /\ act' = Act("select", <<>>, user_answer)
    /\ UNCHANGED <<difficulty, dialect>>
    /\ NoButtonRun

SelectDifficulty ==
    /\ Ready
    /\ view.sidebar
    /\ \E v \in Range(DIFFICULTY_LEVELS) : v # difficulty /\ difficulty' = v
    /\ act' = Act("select", <<>>, user_answer)
    /\ UNCHANGED <<track, dialect>>
    /\ NoButtonRun

SelectDialect ==
    /\ Ready
    /\ view.sidebar
    /\ \E v \in Range(SQL_DIALECTS) : v # dialect /\ dialect' = v
    /\ act' = Act("select", <<>>, user_answer)
    /\ UNCHANGED <<track, difficulty>>
    /\ NoButtonRun

\* the run that st.rerun() asked for
Rerun ==
    /\ pc = "rerun"
    /\ pc' = "idle"
    /\ view' = RenderPage(current_question, grading_result, dialect, {})
    /\ UNCHANGED <<apiKey, current_question, grading_result, user_answer, track,
                   difficulty, dialect, act, reply, request, out,
                   gradedQuestion, prior, genDialect>>

\* line 342 left out
StoreQuestionKeepGrading(question_data) ==
    /\ current_question' = question_data
    /\ user_answer' = <<>>
    /\ UNCHANGED grading_result

\* lines 342-343 left out
StoreQuestionOnly(question_data) ==
    /\ current_question' = question_data
    /\ UNCHANGED <<grading_result, user_answer>>

\* lines 341-343: the new question replaces the old one and its grading
StoreQuestion(question_data) ==
    /\ current_question' = question_data
    /\ grading_result' = NoneV
    /\ user_answer' = <<>>

\* line 440
StoreGrading(result) == grading_result' = result

\* "Generate New Question" is pressed: the run reaches the call, or stops
\* in get_claude_client
GenerateStart ==
    /\ Ready
    /\ view.sidebar
    /\ act' = Act("generate", <<>>, user_answer)
    /\ reply' = NoReply
    /\ UNCHANGED <<apiKey, current_question, grading_result, user_answer, track,
                   difficulty, dialect, gradedQuestion, prior, genDialect>>
    /\ IF ClientHalts(apiKey)
       THEN /\ out' = generate_sql_question(track, difficulty, dialect, apiKey, NoReply)
            /\ request' = NoRequest
            /\ view' = HaltedInSidebar
            /\ pc' = "idle"
       ELSE /\ out' = NoOut
            /\ request' = GenerateRequest(track, difficulty, dialect)
            /\ pc' = "generating"
            /\ UNCHANGED view

\* the model call of a generate returns
GenerateFinish ==
    /\ pc = "generating"
    /\ \E rep \in SessionReplies :
           \E r \in {generate_sql_question(track, difficulty, dialect, apiKey, rep)} :
               /\ reply' = rep
               /\ out' = r
               /\ UNCHANGED <<apiKey, track, difficulty, dialect, act, request>>
               /\ IF Truthy(r.val)
                  THEN /\ StoreQuestion(r.val)
                       /\ gradedQuestion' = IF grading_result' = NoneV THEN NoneV
                                                                      ELSE gradedQuestion
                       /\ prior' = (grading_result # NoneV /\ current_question # r.val)
                       /\ genDialect' = dialect
                       /\ pc' = "rerun"
                       /\ UNCHANGED view
                  ELSE /\ view' = RenderPage(current_question, grading_result,
                                             dialect, Msgs(r))
                       /\ pc' = "idle"
                       /\ UNCHANGED <<current_question, grading_result, user_answer,
                                      gradedQuestion, prior, genDialect>>

\* the test without .strip()
IsBlankNoStrip(answer) == Len(answer) = 0

\* if not user_answer or user_answer.strip() == ""
IsBlank(answer) == Len(answer) = 0 \/ Strip(answer) = <<>>

\* "Submit Answer" is pressed with a blank answer in the text area
SubmitBlank ==
    \E answer \in Answers :
        /\ Ready
        /\ view.submitButton
        /\ RenderPage(current_question, grading_result, dialect, {}).submitButton
        /\ IsBlank(answer)
        /\ act' = Act("submit", answer, user_answer)
        /\ pc' = "idle"
        /\ reply' = NoReply
        /\ request' = NoRequest
        /\ out' = NoOut
        /\ view' = RenderPage(current_question, grading_result, dialect, {"warning"})
        /\ UNCHANGED <<apiKey, current_question, grading_result, user_answer,
                       track, difficulty, dialect, gradedQuestion, prior,
                       genDialect>>

\* "Submit Answer" is pressed with answer in the text area: the run stores
\* the answer and reaches the call, or stops in get_claude_client
SubmitStart ==
    \E answer \in Answers :
        LET question == current_question
            question_text == Get(question, <<"question_text">>)
            schema_description == Get(question, <<"schema_description">>)
            reference_sql == Get(question, <<"reference_sql">>)
            di == GetOr(question, <<"difficulty">>, StrV(<<"I", "ntermediate">>))
            tr == GetOr(question, <<"track">>, StrV(<<"A", "nalytics">>))
        IN  /\ Ready
            /\ view.submitButton
            /\ RenderPage(current_question, grading_result, dialect, {}).submitButton
            /\ ~IsBlank(answer)
            /\ act' = Act("submit", answer, user_answer)
            /\ user_answer' = answer
            /\ reply' = NoReply
            /\ UNCHANGED <<apiKey, current_question, grading_result, track,
                           difficulty, dialect, gradedQuestion, prior,
                           genDialect>>
            /\ IF ClientHalts(apiKey)
               THEN /\ out' = grade_sql_answer(question_text, schema_description,
                                               reference_sql, answer, di, tr,
                                               apiKey, NoReply)
                    /\ request' = NoRequest
                    /\ view' = HaltedInSubmit(dialect)
                    /\ pc' = "idle"
               ELSE /\ out' = NoOut
                    /\ request' = GradeRequest(question_text, schema_description,
                                               reference_sql, answer, di, tr)
                    /\ pc' = "grading"
                    /\ UNCHANGED view

\* the model call of a submit returns
SubmitFinish ==
    /\ pc = "grading"
    /\ \E rep \in SessionReplies :
           \E r \in {grade_sql_answer(Get(current_question, <<"question_text">>),
                                      Get(current_question, <<"schema_description">>),
                                      Get(current_question, <<"reference_sql">>),
                                      user_answer,
                                      GetOr(current_question, <<"difficulty">>, StrV(<<"I", "ntermediate">>)),
                                      GetOr(current_question, <<"track">>, StrV(<<"A", "nalytics">>)),
                                      apiKey, rep)} :
               /\ reply' = rep
               /\ out' = r
               /\ UNCHANGED <<apiKey, current_question, user_answer, track, difficulty,
                              dialect, act, request, prior, genDialect>>
               /\ IF Truthy(r.val)
                  THEN /\ StoreGrading(r.val)
                       /\ gradedQuestion' = current_question
                       /\ pc' = "rerun"
                       /\ UNCHANGED view
                  ELSE /\ view' = RenderPage(current_question, grading_result,
                                             dialect, Msgs(r))
                       /\ pc' = "idle"
                       /\ UNCHANGED <<grading_result, gradedQuestion>>

Next ==
    \/ PlainRun
    \/ SelectTrack
    \/ SelectDifficulty
    \/ SelectDialect
    \/ GenerateStart
    \/ GenerateFinish
    \/ Rerun
    \/ SubmitBlank
    \/ SubmitStart
    \/ SubmitFinish

Spec == Init /\ [][Next]_vars

-----------------------------------------------------------------------------
(* The two operations on their own: inputs drawn at the start, one call each *)

InitFn ==
    /\ apiKey = TRUE
    /\ current_question \in SampleQuestions
    /\ grading_result = NoneV
    /\ user_answer \in {a \in Answers : ~IsBlank(a)}
    /\ \/ /\ reply \in Replies
          /\ track = TRACKS[1]
          /\ difficulty = DIFFICULTY_LEVELS[1]
          /\ dialect = SQL_DIALECTS[1]
       \/ /\ reply \in SessionReplies
          /\ track \in Range(TRACKS)
          /\ difficulty \in Range(DIFFICULTY_LEVELS)
          /\ dialect \in Range(SQL_DIALECTS)
    /\ pc = "idle"
    /\ view = RenderPage(current_question, NoneV, dialect, {})
    /\ act = Act("input", <<>>, user_answer)
    /\ request = NoRequest
    /\ out = NoOut
    /\ gradedQuestion = NoneV
    /\ prior = FALSE
    /\ genDialect = dialect

CallGenerate ==
    /\ act.op = "input"
    /\ act' = Act("called", <<>>, user_answer)
    /\ out' = generate_sql_question(track, difficulty, dialect, apiKey, reply)
    /\ request' = GenerateRequest(track, difficulty, dialect)
    /\ UNCHANGED <<apiKey, current_question, grading_result, user_answer, track,
                   difficulty, dialect, pc, view, reply, gradedQuestion, prior, genDialect>>

CallGrade ==
    /\ act.op = "input"
    /\ act' = Act("called", <<>>, user_answer)
    /\ out' = grade_sql_answer(Get(current_question, <<"question_text">>),
                               Get(current_question, <<"schema_description">>),
                               Get(current_question, <<"reference_sql">>),
                               user_answer,
                               GetOr(current_question, <<"difficulty">>, StrV(<<"I", "ntermediate">>)),
                               GetOr(current_question, <<"track">>, StrV(<<"A", "nalytics">>)),
                               apiKey, reply)
    /\ request' = GradeRequest(Get(current_question, <<"question_text">>),
                               Get(current_question, <<"schema_description">>),
                               Get(current_question, <<"reference_sql">>),
                               user_answer,
                               GetOr(current_question, <<"difficulty">>, StrV(<<"I", "ntermediate">>)),
                               GetOr(current_question, <<"track">>, StrV(<<"A", "nalytics">>)))
    /\ UNCHANGED <<apiKey, current_question, grading_result, user_answer, track,
                   difficulty, dialect, pc, view, reply, gradedQuestion, prior, genDialect>>

NextFn == CallGenerate \/ CallGrade

SpecFn == InitFn /\ [][NextFn]_vars

-----------------------------------------------------------------------------
(* Properties *)

AllBlank(answer) == \A i \in 1..Len(answer) : answer[i] \in StripWsAtoms

Waiting == pc \in {"generating", "grading"}

\* the last run called an operation, the call went out, and nothing came back
Failed == out.op # "none" /\ ~out.halted /\ out.val = NoneV

FieldsOf(op) == IF op = "generate" THEN QuestionFields ELSE GradingFields

\* data is a parsed JSON object
IsObject(data) == data.ok /\ data.v.t = "obj"

\* J is the text of a JSON object, nothing before or after it
IsJsonObjectText(J) ==
    /\ Len(J) >= 2
    /\ J[1] = "{"
    /\ J[Len(J)] = "}"
    /\ IsObject(JsonLoads(J))

NonEmptyStr(v) == v.t = "str" /\ Len(v.s) > 0

\* C1: a submit whose answer is empty or white space only issues no model
\* call and does not invoke grade_sql_answer, shows a warning, and leaves the
\* held grading result and the stored answer as they were.
C1_BlankSubmitCallsNothing ==
    [][(act'.op = "submit" /\ AllBlank(act'.answer)) =>
          /\ request' = NoRequest
          /\ out' = NoOut
          /\ pc' = "idle"
          /\ "warning" \in view'.msgs
          /\ grading_result' = grading_result
          /\ user_answer' = user_answer]_vars

C1_Witness ==
    /\ act.op = "submit"
    /\ act.answer = <<"\t", "U+00A0">>
    /\ "warning" \in view.msgs
    /\ request = NoRequest
    /\ grading_result # NoneV
    /\ user_answer = <<"\n", "select", " ", "1">>

\* C2 as stated: after every generate action the held grading result is
\* discarded and no results panel is rendered.
C2_Original ==
    (act.op = "generate" /\ pc = "idle") =>
        (grading_result = NoneV /\ view.results = "none")

\* C2 amended: once a generate action has obtained a question and stored it,
\* the held grading result is discarded, and the page then rendered shows no
\* results panel.
C2_SuccessfulGenerateDiscardsGrading ==
    (act.op = "generate" /\ out.val # NoneV) =>
        /\ grading_result = NoneV
        /\ pc \in {"idle", "rerun"}
        /\ pc = "idle" => view.results = "none"

\* a question was generated while another question and a grading of it were
\* held, and the page has been rendered again
C2_Witness ==
    /\ act.op = "generate"
    /\ out.val = current_question
    /\ pc = "idle"
    /\ prior
    /\ grading_result = NoneV
    /\ view.main = "question"
    /\ view.results = "none"

\* C3 as stated: a failed generate or submit leaves current_question,
\* grading_result, user_answer and the three selections as they were.
C3_Original ==
    [][(Waiting' \/ Failed') =>
          /\ current_question' = current_question
          /\ grading_result' = grading_result
          /\ <<track', difficulty', dialect'>> = <<track, difficulty, dialect>>
          /\ Failed' => user_answer' = act'.held]_vars

\* C3 amended: from the press of the button to the failure, a failed generate
\* or submit leaves current_question, grading_result and the three selections
\* as they were; a failed generate also leaves user_answer, a failed submit
\* has stored the submitted text in it.
C3_FailureKeepsQuestionAndGrading ==
    [][(Waiting' \/ Failed') =>
          /\ current_question' = current_question
          /\ grading_result' = grading_result
          /\ <<track', difficulty', dialect'>> = <<track, difficulty, dialect>>
          /\ (Failed' /\ act'.op = "generate") => user_answer' = act'.held
          /\ (Failed' /\ act'.op = "submit") => user_answer' = act'.answer]_vars

\* a submit failed while a grading of an earlier answer was held
C3_Witness ==
    /\ act.op = "submit"
    /\ Failed
    /\ out.error
    /\ grading_result # NoneV
    /\ gradedQuestion = current_question
    /\ user_answer = <<"\n", "select", " ", "1">>

\* C4: generate_sql_question returns a record whose four required fields are
\* non-empty strings, or returns None and emits an error.
C4_Claim ==
    (act.op = "called" /\ out.op = "generate") =>
        \/ out.val = NoneV /\ out.error
        \/ /\ out.val.t = "obj"
           /\ \A i \in 1..Len(QuestionFields) :
                  /\ HasKey(out.val, QuestionFields[i])
                  /\ NonEmptyStr(Get(out.val, QuestionFields[i]))

\* C5: grade_sql_answer, given a non-empty answer, returns a record whose
\* score is an integer and whose verdict and feedback are non-empty, or
\* returns None and emits an error.
C5_Claim ==
    (act.op = "called" /\ out.op = "grade" /\ ~AllBlank(user_answer)) =>
        \/ out.val = NoneV /\ out.error
        \/ /\ out.val.t = "obj"
           /\ HasKey(out.val, <<"score">>)
           /\ Get(out.val, <<"score">>).t = "int"
           /\ HasKey(out.val, <<"verdict">>)
           /\ NonEmptyStr(Get(out.val, <<"verdict">>))
           /\ HasKey(out.val, <<"feedback">>)
           /\ NonEmptyStr(Get(out.val, <<"feedback">>))

\* C6 as stated: for a reply prefix + J + suffix with J the text of a JSON
\* object and any commentary around it, the span from the first '{' to the
\* last '}' is J.
C6_Original ==
    (act.op = "called" /\ reply.api = "ok" /\ IsJsonObjectText(reply.body)) =>
        ExtractJson(Text(reply)) = reply.body

\* C6 amended: for a reply prefix + J + suffix with J the text of a JSON
\* object, a prefix without '{' and a suffix without '}', the span from the
\* first '{' to the last '}' is J, and the operation yields what it yields
\* for the reply J alone.
C6_CleanCommentaryIsTolerated ==
    (/\ act.op = "called"
     /\ reply.api = "ok"
     /\ IsJsonObjectText(reply.body)
     /\ "{" \notin Range(reply.prefix)
     /\ "}" \notin Range(reply.suffix)) =>
        /\ ExtractJson(Text(reply)) = reply.body
        /\ out = ParseReply(out.op, Reply("ok", <<>>, reply.body, <<>>),
                            FieldsOf(out.op))

C6_Witness ==
    /\ act.op = "called"
    /\ out.op = "generate"
    /\ reply.prefix = <<"S", "ure", "!", " ">>
    /\ reply.body = QuestionBody
    /\ reply.suffix = <<" ", "H", "ope", " ", "that", " ", "helps", ".">>
    /\ out.val = JsonLoads(QuestionBody).v

\* the extracted span is valid JSON, an object, and lacks a required field
ObjectLacks(data, fields) ==
    /\ IsObject(data)
    /\ \E i \in 1..Len(fields) : ~HasKey(data.v, fields[i])

LacksField(rep, op) == ObjectLacks(JsonLoads(ExtractJson(Text(rep))), FieldsOf(op))

\* json.loads rejects the extracted span as not valid JSON
NotJson(rep) == JsonLoads(ExtractJson(Text(rep))).err = "JSONDecodeError"

\* json.loads gives the extracted span up: it is nested too deep, or holds an
\* integer of too many digits
OverLimit(rep) ==
    JsonLoads(ExtractJson(Text(rep))).err \in {"RecursionError", "ValueError"}

\* C7 as stated: a reply that is not valid JSON and a reply that is valid JSON
\* lacking a required field are both reported, by generate and by grade, with
\* an error message and the raw reply, and produce no result.
C7_Original ==
    (act.op = "called" /\ reply.api = "ok"
       /\ (NotJson(reply) \/ LacksField(reply, out.op))) =>
        (out.error /\ out.raw = "reply" /\ out.val = NoneV)

\* C7 amended: both kinds are reported with an error message and produce no
\* result, in generate and in grade; the raw reply is shown for a reply that
\* json.loads rejects as not valid JSON, and is not shown for one that lacks
\* a required field, nor for one that json.loads gives up with another
\* exception (nested beyond the recursion limit, an integer of more than
\* 4300 digits).
C7_BothKindsReportedRawOnlyForNotJson ==
    (act.op = "called" /\ reply.api = "ok") =>
        /\ NotJson(reply) => (out.error /\ out.raw = "reply" /\ out.val = NoneV)
        /\ LacksField(reply, out.op) =>
               (out.error /\ out.raw = "none" /\ out.val = NoneV)
        /\ OverLimit(reply) => (out.error /\ out.raw = "none" /\ out.val = NoneV)

\* a grade call whose reply is a JSON object without the feedback
C7_Witness ==
    /\ act.op = "called"
    /\ out.op = "grade"
    /\ reply.body = GradingNoFeedback
    /\ reply.prefix = <<>>
    /\ LacksField(reply, "grade")
    /\ out.error
    /\ out.raw = "none"
    /\ out.val = NoneV

\* C8 as stated: without the API key the application halts before it renders
\* the selectors and the generate button.
C8_Original == ~apiKey => ~view.sidebar

\* C8 amended: without the API key the page with the selectors and the
\* generate button is rendered; a generate action then shows an error and
\* stops the script run before the call and before the main panel; no model
\* call is ever issued and no question is ever held.
C8_NoCallWithoutKey ==
    ~apiKey =>
        /\ view.sidebar
        /\ request = NoRequest
        /\ ~Waiting
        /\ current_question = NoneV
        /\ act.op = "generate" =>
               (out.halted /\ view.main = "halted" /\ "error" \in view.msgs)

C8_Witness ==
    /\ ~apiKey
    /\ act.op = "generate"
    /\ out.halted
    /\ view.main = "halted"
    /\ dialect = SQL_DIALECTS[2]

\* a held grading result belongs to the held question: the question it was
\* stored for is the one held, and the call that made it carried that
\* question's text and reference
GradingOfCurrent ==
    /\ grading_result # NoneV =>
           (current_question # NoneV /\ gradedQuestion = current_question)
    /\ (act.op = "submit" /\ out.val # NoneV) =>
           /\ grading_result = out.val
           /\ request.user[1] = Get(current_question, <<"question_text">>)
           /\ request.user[3] = Get(current_question, <<"reference_sql">>)

\* C9: in every reachable state a held grading result implies a held question
\* and was made by grading against that question; a submit happens only while
\* a question is held and never changes current_question; a generate that
\* replaces the question clears the grading result in the same step.
C9_GradingBelongsToQuestion ==
    /\ GradingOfCurrent
    /\ [][/\ GradingOfCurrent'
          /\ act'.op = "submit" =>
                 (current_question # NoneV /\ current_question' = current_question)
          /\ (act'.op = "generate" /\ current_question' # current_question) =>
                 grading_result' = NoneV]_vars

\* the held question replaced another question that had been graded, and a
\* grading of the held question is now held
C9_Witness ==
    /\ grading_result # NoneV
    /\ act.op = "submit"
    /\ out.val = grading_result
    /\ gradedQuestion = current_question
    /\ prior

\* C10: when a question is displayed, the dialect in its metadata row is the
\* dialect that was selected when the question was generated.
C10_Claim ==
    view.main = "question" => view.metaDialect = genDialect

====
